---- MODULE Spec2Model ----
(***************************************************************************)
(* simple-ai-gateway: the approval gate (override.Manager), the operator   *)
(* handlers that deliver decisions, and the proxy handler that drives one  *)
(* exchange from admission to its terminal state.                          *)
(***************************************************************************)
EXTENDS Integers, Sequences, FiniteSets, TLC

\* ------------------------------------------------------------------------
\* Bounds
\* ------------------------------------------------------------------------
MaxToggles == 2       \* ToggleOverride calls per run
MaxDeliveries == 2    \* ApproveRequest / OverrideRequestAction calls per run
MaxBody == 2          \* longest upstream body, in bytes
MaxQueue == 2         \* events the broadcast channel holds before a publisher waits
MaxProviders == 2     \* longest provider list handed to proxy.New
MaxEvents == 3        \* BroadcastEvent calls the publishers make
MaxMailbox == 1       \* capacity of an observer's send channel (10 in the code)

Exchanges == {"e1", "e2"}      \* proxy handler goroutines (one per inbound request)
Operators == {"o1", "o2"}      \* operator-surface handler goroutines

None == "none"
NoID == ""                     \* requestID when logRequest failed

\* ------------------------------------------------------------------------
\* override.ApprovalDecision
\* ------------------------------------------------------------------------
ApprovalApproved == "approved"
ApprovalError400 == "error_400"
ApprovalError500 == "error_500"
ApprovalContentSensitive == "content_sensitive"
ApprovalTimeout == "timeout"

OverrideActions == {ApprovalError400, ApprovalError500, ApprovalContentSensitive}

\* identifiers an operator may name
RequestIDs == Exchanges \cup {NoID}

VARIABLES
  enabled,          \* Manager.enabled
  pendingRequests,  \* Manager.pendingRequests: set of tickets [RequestID, ch]
  Decision,         \* PendingRequest.Decision: the 1-slot channel made by each exchange's wait
  ex,               \* per exchange: locals of ProxyHandler.Handle
  op,               \* per operator goroutine: locals of the operator handler
  requests,         \* requests table: id -> approval_status / override_action
  responses,        \* responses table (set of rows)
  files,            \* file storage: saved binary payloads
  binaryFiles,      \* binary_files table
  client,           \* per exchange: what the client has been sent
  upstream,         \* per exchange: number of upstream dispatches
  accepted,         \* history: per channel, the decisions whose delivery returned true
  returned,         \* history: finished delivery calls: was a wait pending at lookup, result
  toggles,          \* history: ToggleOverride calls started
  deliveries,       \* history: delivery calls started
  scenario,         \* which inputs the environment draws from (fixed at Init)
  providers,        \* the providers handed to proxy.New, in registration order
  spawned,          \* event goroutines started by `go Broadcast...` and not yet run
  broadcast,        \* SSEBroadcaster.broadcast: the buffered channel of events
  order,            \* history: per exchange, the steps taken, in the order taken
  clients,          \* SSEBroadcaster.clients: the registered observers
  mailbox,          \* per observer: SSEClient.send, the buffered channel of events
  closed,           \* the observers whose send channel has been closed
  obs,              \* per observer: position and output of its handler, closes of its channel
  run,              \* SSEBroadcaster.run: position and locals of the run loop
  quit,             \* SSEBroadcaster.quit has been closed
  published,        \* history: BroadcastEvent calls made by the publishers
  fanlog,           \* history: what each send of a fan-out found and did
  inflight,         \* ProxyHandler: the count of exchanges in flight
  frame,            \* per exchange: whether its Handle call has entered and returned
  main,             \* main: position in the shutdown sequence, how the wait ended
  shutdownCtx,      \* main's shutdownCtx, handed to the proxy handler
  timeoutCtx,       \* main's timeoutCtx, the deadline of the shutdown wait
  server            \* the http.Server main started

vars == <<enabled, pendingRequests, Decision, ex, op, requests, responses, files,
          binaryFiles, client, upstream, accepted, returned, toggles, deliveries,
          scenario, providers, spawned, broadcast, order,
          clients, mailbox, closed, obs, run, quit, published, fanlog,
          inflight, frame, main, shutdownCtx, timeoutCtx, server>>

mgrVars == <<enabled, pendingRequests, Decision>>
dbVars == <<requests, responses, files, binaryFiles>>
shutdownVars == <<inflight, frame, main, shutdownCtx, timeoutCtx, server>>
envVars == <<scenario, providers, shutdownVars>>
obsVars == <<clients, mailbox, closed, obs, quit, published>>
sseVars == <<obsVars, run, fanlog>>
histVars == <<accepted, returned, toggles, deliveries, envVars, sseVars>>
busVars == <<spawned, broadcast, order>>
gatewayVars == <<mgrVars, ex, op, dbVars, client, upstream, accepted, returned, toggles,
                 deliveries, envVars, spawned, order>>

\* ------------------------------------------------------------------------
\* Inbound requests.  A path is its sequence of segments.
\* ------------------------------------------------------------------------
PathChat == <<"openai", "v1", "chat", "completions">>
PathImages == <<"openai", "v1", "images", "generations">>
PathPredictions == <<"replicate", "v1", "predictions">>
PathUnknown == <<"v1", "models">>
PathBare == <<"openai", "v1">>

\* the value of the query parameter "stream" ("" when it is absent)
Queries == {"", "true", "TRUE", "1"}

\* request bodies: no body, JSON objects without and with a "stream" member of
\* several types, JSON that is not an object
RequestBodies ==
  {"", "{}", "{\"stream\":true}", "{\"stream\":false}", "{\"stream\":\"true\"}",
   "[true]"}

\* json.Unmarshal(bodyBytes, &requestBody) into a map, then requestBody["stream"]
\* asserted as bool: the decoding error, whether the assertion holds, the value
Unmarshal(body) ==
  CASE body = "{}" -> [err |-> FALSE, isBool |-> FALSE, stream |-> FALSE]
    [] body = "{\"stream\":true}" -> [err |-> FALSE, isBool |-> TRUE, stream |-> TRUE]
    [] body = "{\"stream\":false}" -> [err |-> FALSE, isBool |-> TRUE, stream |-> FALSE]
    [] body = "{\"stream\":\"true\"}" -> [err |-> FALSE, isBool |-> FALSE, stream |-> FALSE]
    [] OTHER -> [err |-> TRUE, isBool |-> FALSE, stream |-> FALSE]

AuthHeaders == {"", "Bearer k", "Token k", "Basic k"}

HasPrefix(s, pre) ==
  /\ Len(s) >= Len(pre)
  /\ \A i \in 1..Len(pre) : s[i] = pre[i]

Contains(s, sub) ==
  \E off \in 0..(Len(s) - Len(sub)) : \A i \in 1..Len(sub) : s[off + i] = sub[i]

\* strings.HasPrefix(authHeader, "Token ") / "Bearer "
AuthScheme(h) ==
  CASE h = "Bearer k" -> "Bearer"
    [] h = "Token k" -> "Token"
    [] h = "Basic k" -> "Basic"
    [] OTHER -> ""

\* ------------------------------------------------------------------------
\* Providers
\* ------------------------------------------------------------------------
Providers == {"openai", "replicate"}

\* the trailing "/" of the prefix: at least one more segment follows
ShouldProxy(p, path) ==
  /\ Len(path) >= 3
  /\ HasPrefix(path, <<p, "v1">>)

IsStreamingEndpoint(p, path) ==
  IF p = "openai"
    THEN \/ Contains(path, <<"openai", "v1", "chat", "completions">>)
         \/ Contains(path, <<"openai", "v1", "completions">>)
    ELSE Contains(path, <<"replicate", "v1", "predictions">>)

\* main: the providers handed to proxy.New, in registration order
MainProviders == <<"openai", "replicate">>

\* every provider list of at most MaxProviders entries
Registrations ==
  UNION {[1..n -> Providers] : n \in 0..MaxProviders}

\* New: the handler keeps the providers in a map keyed by Name(); two entries
\* of one name are one entry, and the order of registration is not kept
providerMap(list) == {list[i] : i \in 1..Len(list)}

\* the loop stops at the first provider it visits, whether or not the provider
\* accepts the path
SelectProvider_Any(registered, path) ==
  IF registered = {} THEN {None} ELSE registered

\* Handle: `for _, p := range ph.providers` stops at the first provider that
\* accepts the path. The iteration order of a map is unspecified, so the loop
\* can stop at any accepting provider; None when the loop ends without one
SelectProvider(registered, path) ==
  LET accepting == {p \in registered : ShouldProxy(p, path)}
  IN IF accepting = {} THEN {None} ELSE accepting

\* Replicate accepts every scheme
PrepareRequest_AnyScheme(p, auth) == auth # ""

\* PrepareRequest: TRUE when the provider accepts the outbound request
PrepareRequest(p, auth) ==
  IF auth = "" THEN FALSE
  ELSE IF p = "replicate" THEN AuthScheme(auth) \in {"Token", "Bearer"}
  ELSE TRUE

\* provider.GetCannedError: the envelope of the canned body and its message class
getCannedOpenAIError(errorType) ==
  [envelope |-> "error.object",
   type |-> CASE errorType = "error_400" -> "invalid_request_error"
              [] errorType = "error_500" -> "server_error"
              [] errorType = "content_sensitive" -> "image_generation_user_error"
              [] OTHER -> "api_error",
   code |-> IF errorType = "content_sensitive" THEN "moderation_blocked" ELSE "null"]

getCannedReplicateError(errorType) ==
  [envelope |-> "detail",
   type |-> CASE errorType = "error_400" -> "Invalid request"
              [] errorType = "error_500" -> "Internal server error"
              [] errorType = "content_sensitive" -> "flagged as sensitive (E005)"
              [] OTHER -> "An error occurred",
   code |-> "absent"]

getCannedGenericError(errorType) ==
  [envelope |-> "error.string",
   type |-> CASE errorType = "error_400" -> "Bad request"
              [] errorType = "error_500" -> "Internal server error"
              [] errorType = "content_sensitive" -> "flagged as sensitive"
              [] OTHER -> "An error occurred",
   code |-> "absent"]

\* every provider gets the generic envelope
GetCannedError_Generic(providerName, errorType) == getCannedGenericError(errorType)

GetCannedError(providerName, errorType) ==
  CASE providerName = "openai" -> getCannedOpenAIError(errorType)
    [] providerName = "replicate" -> getCannedReplicateError(errorType)
    [] OTHER -> getCannedGenericError(errorType)

\* ------------------------------------------------------------------------
\* Upstream replies and transport decoding
\* ------------------------------------------------------------------------
GzipMagic == "0x1f"    \* first byte of a gzip member
BrotliMark == "0x1b"   \* first byte of the brotli streams the upstream emits
Plain == "0x61"        \* a payload byte

Byte == {GzipMagic, BrotliMark, Plain}

RECURSIVE SeqsUpTo(_)
SeqsUpTo(n) ==
  IF n = 0 THEN {<<>>}
  ELSE LET shorter == SeqsUpTo(n - 1)
       IN shorter \cup {Append(s, b) : s \in {t \in shorter : Len(t) = n - 1}, b \in Byte}

Bodies == SeqsUpTo(MaxBody)

ContentEncodings == {"", "gzip", " GZIP ", "br", "deflate"}
\* a content type is <<type, subtype>>
ContentTypes == {<<"application", "json">>, <<"image", "png">>}
StatusCodes == {200, 500}

\* strings.ToLower(strings.TrimSpace(contentEncoding))
NormalizeEncoding(ce) == IF ce = " GZIP " THEN "gzip" ELSE ce

\* compress/gzip: NewReader fails unless the header is there; the payload follows
gunzip(body) ==
  IF Len(body) >= 1 /\ body[1] = GzipMagic
    THEN [err |-> FALSE, data |-> Tail(body)]
    ELSE [err |-> TRUE, data |-> <<>>]

\* brotli.NewReader never fails; ReadAll fails on an invalid stream
unbrotli(body) ==
  IF Len(body) >= 1 /\ body[1] = BrotliMark
    THEN [err |-> FALSE, data |-> Tail(body)]
    ELSE [err |-> TRUE, data |-> <<>>]

decompressBody(body, contentEncoding) ==
  LET ce == NormalizeEncoding(contentEncoding)
  IN CASE ce = "gzip" -> gunzip(body)
       [] ce = "br" -> unbrotli(body)
       [] OTHER -> [err |-> FALSE, data |-> body]

\* the copy kept for storage (both response paths)
StoredBody(body, contentEncoding) ==
  IF contentEncoding # ""
    THEN LET d == decompressBody(body, contentEncoding)
         IN IF d.err THEN body ELSE d.data
    ELSE body

\* strings.HasPrefix(contentType, "image/") || "audio/" || "video/"
IsBinary(contentType) == contentType[1] \in {"image", "audio", "video"}


\* ------------------------------------------------------------------------
\* Scenarios: the inputs the environment draws from
\* ------------------------------------------------------------------------
\* An upstream reply: client.Do fails (err), or it returns a status and headers
\* and the body then yields `body`; with `cut` the body read ends in an error
\* (timeout, reset) instead of EOF after those bytes.
Reply(status, ctype, enc, body, cut) ==
  [err |-> FALSE, status |-> status, ctype |-> ctype, encoding |-> enc, body |-> body,
   cut |-> cut]

Unreachable ==
  [err |-> TRUE, status |-> 0, ctype |-> <<"", "">>, encoding |-> "", body |-> <<>>,
   cut |-> FALSE]

NoReply ==
  [err |-> FALSE, status |-> 0, ctype |-> <<"", "">>, encoding |-> "", body |-> <<>>,
   cut |-> FALSE]

AllReplies ==
  {Reply(st, ct, ce, b, cut) : st \in StatusCodes, ct \in ContentTypes,
                               ce \in ContentEncodings, b \in Bodies,
                               cut \in BOOLEAN} \cup {Unreachable}

FewReplies ==
  {Reply(200, <<"application", "json">>, "gzip", <<GzipMagic, Plain>>, FALSE),
   Unreachable}

\* an image (saved as a binary artifact), a compressed JSON reply, no reply
BestEffortReplies ==
  {Reply(200, <<"image", "png">>, "", <<Plain>>, FALSE),
   Reply(200, <<"application", "json">>, "gzip", <<GzipMagic, Plain>>, FALSE),
   Unreachable}

\* "gate": one exchange and two concurrent operators
\* "faults": two concurrent exchanges and one operator, a request store that may fail
\* "relay": one exchange and one operator, every upstream reply
\* "shutdown": two concurrent exchanges, one operator and the shutdown sequence
ScenarioExchanges == IF scenario \in {"faults", "shutdown"} THEN Exchanges ELSE {"e1"}

\* operator calls the environment makes
ScenarioToggles == IF scenario \in {"gate", "faults"} THEN MaxToggles ELSE 1

ScenarioDeliveries == IF scenario = "gate" THEN MaxDeliveries ELSE 1

ScenarioOperators == IF scenario = "gate" THEN Operators ELSE {"o1"}

ScenarioReplies ==
  CASE scenario = "relay" -> AllReplies
    [] scenario = "besteffort" -> BestEffortReplies
    [] OTHER -> FewReplies

\* the "action" values an operator posts to /api/requests/{id}/override
ScenarioActions ==
  IF scenario = "relay"
    THEN {ApprovalError500, ApprovalContentSensitive}
    ELSE {ApprovalError400, "bogus"}

\* the identifiers an operator names
ScenarioIDs ==
  IF scenario \in {"relay", "intake", "besteffort", "shutdown"} THEN {"e1"} ELSE RequestIDs

ScenarioPaths ==
  CASE scenario = "relay" -> {PathChat, PathImages, PathPredictions, PathUnknown}
    [] scenario = "intake" -> {PathChat, PathImages, PathPredictions, PathUnknown, PathBare}
    [] scenario = "besteffort" -> {PathChat, PathImages}
    [] OTHER -> {PathChat, PathUnknown}

\* the ways a request asks for a streamed reply
ScenarioQueries == IF scenario = "intake" THEN Queries ELSE {"", "true"}

ScenarioBodies == IF scenario = "intake" THEN RequestBodies ELSE {"{}"}

\* the Authorization header of the request
ScenarioAuth == IF scenario = "intake" THEN AuthHeaders ELSE {"Bearer k"}

\* db.StoreRequest may fail (the exchange then carries the empty identifier)
ScenarioRequestFaults == scenario \in {"faults", "besteffort"}

\* db.StoreResponse, db.StoreBinaryFile and SaveFile may fail
ScenarioFaults == scenario = "besteffort"

\* logRequest: both calls succeed, db.StoreRequest fails, or the row is stored
\* and db.GetRequest fails (the identifier is returned, the row is not)
LogRequestOutcomes ==
  IF ScenarioRequestFaults THEN {"stored", "store_failed", "fetch_failed"} ELSE {"stored"}

\* api.EventMessage: its type and the exchange it is about
Event(type, id) == [type |-> type, id |-> id]

\* BroadcastEvent: the send into b.broadcast waits while the channel is full
CanPublish == Len(broadcast) < MaxQueue

\* the observers that may connect to GET /api/events
Observers == {"c1", "c2"}

NoEvent == Event(None, NoID)

\* the event of the k-th BroadcastEvent call
SSEEvent(k) ==
  Event(IF k % 2 = 1 THEN "request_created" ELSE "response_created", ToString(k))

\* the number of the BroadcastEvent call that made the event
EventNumber(event) == CHOOSE k \in 1..MaxEvents : SSEEvent(k) = event

\* NewSSEBroadcaster: the run loop waits in its select
InitRun == [pc |-> "select", event |-> NoEvent, todo |-> {}, registered |-> {}]

InitObserver == [pc |-> "idle", seen |-> <<>>, closes |-> 0, since |-> 0]

\* ------------------------------------------------------------------------
\* Initial state
\* ------------------------------------------------------------------------
NoCanned == [envelope |-> "none", type |-> "none", code |-> "none"]

\* what the client has been sent: `body` is what the handler wrote, `flushed`
\* how many of those bytes have left the server's write buffer
NoClient ==
  [status |-> 0, kind |-> "none", body |-> <<>>, canned |-> NoCanned, msg |-> None,
   flushed |-> 0]

\* a requests row that has not been inserted
NoRequest == [approval_status |-> "absent", override_action |-> None, approved_at |-> FALSE]

InitExchange ==
  [pc |-> "idle", path |-> <<>>, provider |-> None, requestID |-> NoID,
   query |-> "", body |-> "", auth |-> "",
   persisted |-> FALSE, gated |-> "unread", outcome |-> None, streaming |-> FALSE,
   resp |-> NoReply, post |-> "none",
   remaining |-> <<>>, chunk |-> <<>>, bufferedResponse |-> <<>>]

\* main is blocked on `<-sigChan`
InitMain == [pc |-> 0, wait |-> "none", pending |-> 0]

InitOperator == [pc |-> "idle", id |-> NoID, action |-> None, pending |-> None, seen |-> FALSE]

InitWith(sc) ==
  /\ enabled = FALSE
  /\ pendingRequests = {}
  /\ Decision = [e \in Exchanges |-> None]
  /\ ex = [e \in Exchanges |-> InitExchange]
  /\ op = [o \in Operators |-> InitOperator]
  /\ requests = [id \in Exchanges |-> NoRequest]
  /\ responses = {}
  /\ files = {}
  /\ binaryFiles = {}
  /\ client = [e \in Exchanges |-> NoClient]
  /\ upstream = [e \in Exchanges |-> 0]
  /\ accepted = [e \in Exchanges |-> <<>>]
  /\ returned = {}
  /\ toggles = 0
  /\ deliveries = 0
  /\ scenario = sc
  /\ providers \in (IF sc = "intake" THEN Registrations ELSE {MainProviders})
  /\ spawned = {}
  /\ broadcast = <<>>
  /\ order = [e \in Exchanges |-> <<>>]
  /\ clients = {}
  /\ mailbox = [c \in Observers |-> <<>>]
  /\ closed = {}
  /\ obs = [c \in Observers |-> InitObserver]
  /\ run = InitRun
  /\ quit = FALSE
  /\ published = 0
  /\ fanlog = {}
  /\ inflight = 0
  /\ frame = [e \in Exchanges |-> "none"]
  /\ main = InitMain
  /\ shutdownCtx = "live"
  /\ timeoutCtx = "unset"
  /\ server = "listening"

Init == InitWith("gate")

InitRelay == InitWith("relay")

InitFaults == InitWith("faults")

InitIntake == InitWith("intake")

InitBestEffort == InitWith("besteffort")

InitBroadcaster == InitWith("sse")

InitShutdown == InitWith("shutdown")

\* ------------------------------------------------------------------------
\* override.Manager
\* ------------------------------------------------------------------------
\* m.pendingRequests[requestID]
HasTicket(id) == \E t \in pendingRequests : t.RequestID = id

Ticket(id) == CHOOSE t \in pendingRequests : t.RequestID = id

\* m.pendingRequests[requestID] = pending
MapPut(table, id, ch) ==
  {t \in table : t.RequestID # id} \cup {[RequestID |-> id, ch |-> ch]}

\* the ticket is left in the table
MapDelete_Keep(table, id) == table

\* delete(m.pendingRequests, requestID)
MapDelete(table, id) == {t \in table : t.RequestID # id}

\* Enable / Disable: the value written to m.enabled
EnableValue == TRUE

DisableValue == FALSE

\* WaitForApproval, lines 66-75: make the ticket and its channel, register it
WaitForApproval_Register(e) ==
  /\ ex[e].pc = "wait_register"
  /\ pendingRequests' = MapPut(pendingRequests, ex[e].requestID, e)
  /\ Decision' = [Decision EXCEPT ![e] = None]
  /\ ex' = [ex EXCEPT ![e].pc = "waiting"]
  /\ UNCHANGED <<enabled, op, dbVars, client, upstream, histVars, busVars>>

\* the timer branch lets the exchange through
TimerBranchDecision_Approves == ApprovalApproved

\* what the select returns on its timer branch
TimerBranchDecision == ApprovalTimeout

\* what the select returns on its channel branch
ChannelBranchDecision(d) == d

\* WaitForApproval, line 79: the channel branch of the select
WaitForApproval_Receive(e) ==
  /\ ex[e].pc = "waiting"
  /\ Decision[e] # None
  /\ Decision' = [Decision EXCEPT ![e] = None]
  /\ ex' = [ex EXCEPT ![e].pc = "wait_delete",
                      ![e].outcome = ChannelBranchDecision(Decision[e])]
  /\ UNCHANGED <<enabled, pendingRequests, op, dbVars, client, upstream, histVars, busVars>>

\* WaitForApproval, line 84: the timer branch of the select; the timer may fire
\* at any moment, also when a decision is already in the channel
WaitForApproval_Timeout(e) ==
  /\ ex[e].pc = "waiting"
  /\ ex' = [ex EXCEPT ![e].pc = "wait_delete", ![e].outcome = TimerBranchDecision]
  /\ UNCHANGED <<mgrVars, op, dbVars, client, upstream, histVars, busVars>>

\* WaitForApproval, lines 80-83 and 85-88: drop the ticket and return
WaitForApproval_Return(e) ==
  /\ ex[e].pc = "wait_delete"
  /\ pendingRequests' = MapDelete(pendingRequests, ex[e].requestID)
  /\ ex' = [ex EXCEPT ![e].pc = "gate_resolve"]
  /\ UNCHANGED <<enabled, Decision, op, dbVars, client, upstream, histVars, busVars>>


\* ------------------------------------------------------------------------
\* Operator surface: api.Handler
\* ------------------------------------------------------------------------
\* ToggleOverride, line 724: mgr.IsEnabled()
ToggleOverride_Read(o) ==
  /\ op[o].pc = "idle"
  /\ o \in ScenarioOperators
  /\ toggles < ScenarioToggles
  /\ toggles' = toggles + 1
  /\ op' = [op EXCEPT ![o].pc = "toggle_write", ![o].seen = enabled]
  /\ UNCHANGED <<mgrVars, ex, dbVars, client, upstream, accepted, returned,
                 deliveries, envVars, sseVars, busVars>>

\* turning the mode off also lets every pending exchange through
ToggleOverride_WriteReleasing(o) ==
  /\ op[o].pc = "toggle_write"
  /\ enabled' = IF op[o].seen THEN DisableValue ELSE EnableValue
  /\ Decision' = IF op[o].seen
                   THEN [e \in Exchanges |->
                           IF \E t \in pendingRequests : t.ch = e
                             THEN ApprovalApproved ELSE Decision[e]]
                   ELSE Decision
  /\ op' = [op EXCEPT ![o] = InitOperator]
  /\ CanPublish
  /\ broadcast' = Append(broadcast, Event("override_mode_changed", NoID))
  /\ UNCHANGED <<pendingRequests, ex, dbVars, client, upstream, histVars, spawned, order>>

\* turning the mode off also empties the ticket table
ToggleOverride_WriteClearing(o) ==
  /\ op[o].pc = "toggle_write"
  /\ enabled' = IF op[o].seen THEN DisableValue ELSE EnableValue
  /\ pendingRequests' = IF op[o].seen THEN {} ELSE pendingRequests
  /\ op' = [op EXCEPT ![o] = InitOperator]
  /\ CanPublish
  /\ broadcast' = Append(broadcast, Event("override_mode_changed", NoID))
  /\ UNCHANGED <<Decision, ex, dbVars, client, upstream, histVars, spawned, order>>

\* ToggleOverride, lines 725-739: mgr.Disable() or mgr.Enable(), then the
\* mode-change event is handed to the broadcaster
ToggleOverride_Write(o) ==
  /\ op[o].pc = "toggle_write"
  /\ enabled' = IF op[o].seen THEN DisableValue ELSE EnableValue
  /\ op' = [op EXCEPT ![o] = InitOperator]
  /\ CanPublish
  /\ broadcast' = Append(broadcast, Event("override_mode_changed", NoID))
  /\ UNCHANGED <<pendingRequests, Decision, ex, dbVars, client, upstream, histVars,
                 spawned, order>>

\* Approve / Override, the lookup under RLock: the channel found, or None
Lookup(id) == IF HasTicket(id) THEN Ticket(id).ch ELSE None

\* some exchange is inside WaitForApproval(id): registered and not yet returned
WaitInProgress(id) ==
  \E e \in Exchanges : ex[e].requestID = id /\ ex[e].pc \in {"waiting", "wait_delete"}

\* Override, line 112: the action is one of the three override decisions
ValidAction(action) == action \in OverrideActions

\* the non-blocking send: TRUE when the channel has room
CanSend(ch) == Decision[ch] = None

Finish(pending, ok) ==
  returned' = returned \cup {[pending |-> pending, ok |-> ok]}

\* ApproveRequest, line 781 -> Manager.Approve, lines 94-100
Approve_Lookup(o, id) ==
  /\ op[o].pc = "idle"
  /\ o \in ScenarioOperators
  /\ deliveries < ScenarioDeliveries
  /\ deliveries' = deliveries + 1
  /\ LET ch == Lookup(id)
     IN IF ch = None
          THEN /\ op' = [op EXCEPT ![o] = InitOperator]
               /\ Finish(WaitInProgress(id), FALSE)
          ELSE /\ op' = [op EXCEPT ![o].pc = "approve_send", ![o].id = id,
                                   ![o].action = ApprovalApproved, ![o].pending = ch,
                                   ![o].seen = WaitInProgress(id)]
               /\ UNCHANGED returned
  /\ UNCHANGED <<mgrVars, ex, dbVars, client, upstream, accepted, toggles, envVars, sseVars,
                 busVars>>

\* OverrideRequestAction, lines 834-853 -> Manager.Override, lines 112-122
Override_Lookup(o, id, action) ==
  /\ op[o].pc = "idle"
  /\ o \in ScenarioOperators
  /\ deliveries < ScenarioDeliveries
  /\ deliveries' = deliveries + 1
  /\ LET ch == IF ValidAction(action) THEN Lookup(id) ELSE None
     IN IF ch = None
          THEN /\ op' = [op EXCEPT ![o] = InitOperator]
               /\ Finish(WaitInProgress(id), FALSE)
          ELSE /\ op' = [op EXCEPT ![o].pc = "override_send", ![o].id = id,
                                   ![o].action = action, ![o].pending = ch,
                                   ![o].seen = WaitInProgress(id)]
               /\ UNCHANGED returned
  /\ UNCHANGED <<mgrVars, ex, dbVars, client, upstream, accepted, toggles, envVars, sseVars,
                 busVars>>

\* a plain channel send: the deliverer waits until the slot is free
Deliver_SendBlocking(o) ==
  /\ op[o].pc \in {"approve_send", "override_send"}
  /\ CanSend(op[o].pending)
  /\ Decision' = [Decision EXCEPT ![op[o].pending] = op[o].action]
  /\ accepted' = [accepted EXCEPT ![op[o].pending] = Append(@, op[o].action)]
  /\ op' = [op EXCEPT ![o].pc = "record"]
  /\ Finish(op[o].seen, TRUE)
  /\ UNCHANGED <<enabled, pendingRequests, ex, dbVars, client, upstream, toggles,
                 deliveries, envVars, sseVars, busVars>>

\* the handler goes on to record the decision whatever the delivery returned
Deliver_Send_RecordAlways(o) ==
  /\ op[o].pc \in {"approve_send", "override_send"}
  /\ LET ch == op[o].pending
     IN IF CanSend(ch)
          THEN /\ Decision' = [Decision EXCEPT ![ch] = op[o].action]
               /\ accepted' = [accepted EXCEPT ![ch] = Append(@, op[o].action)]
               /\ op' = [op EXCEPT ![o].pc = "record"]
               /\ Finish(op[o].seen, TRUE)
          ELSE /\ op' = [op EXCEPT ![o].pc = "record"]
               /\ Finish(op[o].seen, FALSE)
               /\ UNCHANGED <<Decision, accepted>>
  /\ UNCHANGED <<enabled, pendingRequests, ex, dbVars, client, upstream, toggles,
                 deliveries, envVars, sseVars, busVars>>

\* Manager.Approve, lines 102-107 and Manager.Override, lines 124-129
Deliver_Send(o) ==
  /\ op[o].pc \in {"approve_send", "override_send"}
  /\ LET ch == op[o].pending
     IN IF CanSend(ch)
          THEN /\ Decision' = [Decision EXCEPT ![ch] = op[o].action]
               /\ accepted' = [accepted EXCEPT ![ch] = Append(@, op[o].action)]
               /\ op' = [op EXCEPT ![o].pc = "record"]
               /\ Finish(op[o].seen, TRUE)
          ELSE /\ op' = [op EXCEPT ![o] = InitOperator]
               /\ Finish(op[o].seen, FALSE)
               /\ UNCHANGED <<Decision, accepted>>
  /\ UNCHANGED <<enabled, pendingRequests, ex, dbVars, client, upstream, toggles,
                 deliveries, envVars, sseVars, busVars>>

\* DB.ApproveRequest / DB.OverrideRequest: UPDATE requests ... WHERE id = ?
UpdateApproval(table, id, action) ==
  IF id \in DOMAIN table /\ table[id].approval_status # "absent"
    THEN [table EXCEPT ![id] =
            IF action = ApprovalApproved
              THEN [approval_status |-> "approved", override_action |-> @.override_action,
                    approved_at |-> TRUE]
              ELSE [approval_status |-> "overridden", override_action |-> action,
                    approved_at |-> TRUE]]
    ELSE table

\* the event the operator handler publishes for an accepted decision
DecisionEvent(id, action) ==
  Event(IF action = ApprovalApproved THEN "request_approved" ELSE "request_overridden", id)

\* ApproveRequest, lines 786-808 and OverrideRequestAction, lines 858-881: the
\* status is written, then the event is handed to the broadcaster
Deliver_Record(o) ==
  /\ op[o].pc = "record"
  /\ requests' = UpdateApproval(requests, op[o].id, op[o].action)
  /\ op' = [op EXCEPT ![o] = InitOperator]
  /\ CanPublish
  /\ broadcast' = Append(broadcast, DecisionEvent(op[o].id, op[o].action))
  /\ UNCHANGED <<mgrVars, ex, responses, files, binaryFiles, client, upstream, histVars,
                 spawned, order>>


\* ------------------------------------------------------------------------
\* Persistence and client writes used by the proxy handler
\* ------------------------------------------------------------------------
RowsOf(e) == {r \in responses : r.id[1] = e}

\* uuid.New() of StoreResponse: a fresh row id
NewRowID(e) == <<e, Cardinality(RowsOf(e)) + 1>>

\* StoreResponseInput of the reply paths (IsError left at its zero value)
ResponseRow(e, status, body, canned) ==
  [id |-> NewRowID(e), RequestID |-> ex[e].requestID, StatusCode |-> status,
   Body |-> body, canned |-> canned, IsError |-> FALSE, ErrorMessage |-> ""]

\* the error row without its flag
ErrorRow_Unflagged(e, message) ==
  [id |-> NewRowID(e), RequestID |-> ex[e].requestID, StatusCode |-> 502,
   Body |-> <<>>, canned |-> NoCanned, IsError |-> FALSE, ErrorMessage |-> message]

\* logErrorResponse: the StoreResponseInput it builds
ErrorRow(e, message) ==
  [id |-> NewRowID(e), RequestID |-> ex[e].requestID, StatusCode |-> 502,
   Body |-> <<>>, canned |-> NoCanned, IsError |-> TRUE, ErrorMessage |-> message]

\* db.StoreResponse: the insert may fail when the store is faulty
StoreOutcomes == IF ScenarioFaults THEN BOOLEAN ELSE {TRUE}

\* http.Error(w, message, code)
HttpError(code, message) ==
  [status |-> code, kind |-> "text", body |-> <<>>, canned |-> NoCanned, msg |-> message,
   flushed |-> 0]

\* w.WriteHeader(status); w.Write(body); the handler returns and the server
\* sends what was written
Relayed(status, body) ==
  [status |-> status, kind |-> "upstream", body |-> body, canned |-> NoCanned, msg |-> None,
   flushed |-> Len(body)]

\* the decoded copy is written to the client
ClientBody_Decoded(respBody, decompressedBody) == decompressedBody

\* handleRegularResponse, line 653: the bytes written to the client
ClientBody(respBody, decompressedBody) == respBody

\* the decoded copy is saved as the binary artifact
ArtifactBytes_Decoded(respBody, decompressedBody) == decompressedBody

\* handleRegularResponse, line 596: the bytes saved as the binary artifact
ArtifactBytes(respBody, decompressedBody) == respBody

\* the steps of exchange e with one more step, taken only when `taken`
Step(e, taken, name) ==
  IF taken THEN [order EXCEPT ![e] = Append(@, name)] ELSE order

\* `go func() { ... BroadcastResponseCreated(storedResp) }()`: started only
\* after db.StoreResponse returned without error
SpawnResponseEvent(e, stored) ==
  IF stored THEN spawned \cup {Event("response_created", e)} ELSE spawned

\* ------------------------------------------------------------------------
\* ProxyHandler.Handle
\* ------------------------------------------------------------------------
\* Handle, lines 352-374: provider resolution and logRequest
Handle_Admit(e) ==
  /\ ex[e].pc = "idle"
  /\ e \in ScenarioExchanges
  /\ \E path \in ScenarioPaths :
     \E selected \in SelectProvider(providerMap(providers), path) :
          IF selected = None
            THEN /\ client' = [client EXCEPT ![e] =
                                 HttpError(400, "No provider found for this request")]
                 /\ ex' = [ex EXCEPT ![e].pc = "done", ![e].path = path]
                 /\ UNCHANGED <<requests, spawned, order>>
            ELSE \E log \in LogRequestOutcomes :
                 LET ok == log # "store_failed"
                 IN /\ ex' = [ex EXCEPT ![e].pc = "admitted", ![e].path = path,
                                        ![e].provider = selected,
                                        ![e].persisted = ok,
                                        ![e].requestID = IF ok THEN e ELSE NoID]
                    /\ requests' = IF ok
                                     THEN [requests EXCEPT ![e] =
                                             [approval_status |-> "approved",
                                              override_action |-> None,
                                              approved_at |-> FALSE]]
                                     ELSE requests
                    /\ order' = IF ok
                                  THEN [order EXCEPT ![e] = Append(@, "request_persist")]
                                  ELSE order
                    /\ spawned' = IF log = "stored"
                                    THEN spawned \cup {Event("request_created", e)}
                                    ELSE spawned
                    /\ UNCHANGED client
  /\ UNCHANGED <<mgrVars, op, responses, files, binaryFiles, upstream, histVars, broadcast>>

\* the approval check at admission: the toggle is read once
Handle_CheckApproval(e) ==
  /\ ex[e].pc = "admitted"
  /\ ex' = [ex EXCEPT ![e].gated = IF enabled THEN "on" ELSE "off",
                      ![e].pc = IF enabled THEN "wait_register" ELSE "prepare"]
  /\ UNCHANGED <<mgrVars, op, dbVars, client, upstream, histVars, busVars>>

\* status sent with a canned override body
CannedStatus(decision) == IF decision = ApprovalError500 THEN 500 ELSE 400

\* what the exchange does with the outcome of its wait
Handle_GateResolve(e) ==
  /\ ex[e].pc = "gate_resolve"
  /\ LET d == ex[e].outcome
         body == GetCannedError(ex[e].provider, d)
     IN CASE d = ApprovalApproved ->
               /\ ex' = [ex EXCEPT ![e].pc = "prepare"]
               /\ UNCHANGED <<responses, client, order>>
          [] d = ApprovalTimeout ->
               /\ ex' = [ex EXCEPT ![e].pc = "done"]
               /\ \E ok \in StoreOutcomes :
                    /\ responses' = IF ok
                                      THEN responses \cup {ErrorRow(e, "approval timed out")}
                                      ELSE responses
                    /\ order' = Step(e, ok, "response_persist")
               /\ client' = [client EXCEPT ![e] =
                               [status |-> 502, kind |-> "canned", body |-> <<>>,
                                canned |-> body, msg |-> None, flushed |-> 0]]
          [] OTHER ->
               /\ ex' = [ex EXCEPT ![e].pc = "done"]
               /\ \E ok \in StoreOutcomes :
                    /\ responses' = IF ok
                                      THEN responses \cup
                                             {ResponseRow(e, CannedStatus(d), <<>>, body)}
                                      ELSE responses
                    /\ order' = Step(e, ok, "response_persist")
               /\ client' = [client EXCEPT ![e] =
                               [status |-> CannedStatus(d), kind |-> "canned",
                                body |-> <<>>, canned |-> body, msg |-> None,
                                flushed |-> 0]]
  /\ UNCHANGED <<mgrVars, op, requests, files, binaryFiles, upstream, histVars,
                 spawned, broadcast>>

\* the request's own wish alone decides
isStreamingRequest_IntentOnly(p, path, query, body) ==
  query = "true" \/ Unmarshal(body).stream

\* isStreamingRequest: the endpoint test, then the query parameter, then the body
isStreamingRequest(p, path, query, body) ==
  IF ~IsStreamingEndpoint(p, path) THEN FALSE
  ELSE IF query = "true" THEN TRUE
  ELSE LET requestBody == Unmarshal(body)
       IN IF ~requestBody.err /\ requestBody.isBool /\ requestBody.stream
            THEN TRUE
            ELSE FALSE

\* Handle, lines 376-384: isStreamingRequest and prepareProxyRequest
Handle_Prepare(e) ==
  /\ ex[e].pc = "prepare"
  /\ \E query \in ScenarioQueries, body \in ScenarioBodies, auth \in ScenarioAuth :
       IF PrepareRequest(ex[e].provider, auth)
         THEN /\ ex' = [ex EXCEPT ![e].pc = "dispatch",
                          ![e].query = query, ![e].body = body, ![e].auth = auth,
                          ![e].streaming =
                             isStreamingRequest(ex[e].provider, ex[e].path, query, body)]
              /\ UNCHANGED client
         ELSE /\ ex' = [ex EXCEPT ![e].pc = "done", ![e].query = query,
                                  ![e].body = body, ![e].auth = auth]
              /\ client' = [client EXCEPT ![e] =
                              HttpError(400, "Failed to prepare request")]
  /\ UNCHANGED <<mgrVars, op, dbVars, upstream, histVars, busVars>>

\* handleRegularResponse 554-564 / handleStreamingResponse 668-694: client.Do
Handle_Dispatch(e) ==
  /\ ex[e].pc = "dispatch"
  /\ upstream' = [upstream EXCEPT ![e] = @ + 1]
  /\ \E r \in ScenarioReplies :
       IF r.err
         THEN /\ \E ok \in StoreOutcomes :
                   /\ responses' = IF ok
                                     THEN responses \cup {ErrorRow(e, "unreachable")}
                                     ELSE responses
                   /\ order' = [order EXCEPT ![e] =
                                  @ \o (IF ok THEN <<"dispatch", "response_persist">>
                                              ELSE <<"dispatch">>)]
              /\ client' = [client EXCEPT ![e] =
                              HttpError(502, "Failed to reach provider")]
              /\ ex' = [ex EXCEPT ![e].pc = "done", ![e].resp = r]
         ELSE IF ex[e].streaming
           THEN /\ client' = [client EXCEPT ![e] = Relayed(r.status, <<>>)]
                /\ ex' = [ex EXCEPT ![e].pc = "streaming", ![e].resp = r,
                                    ![e].remaining = r.body]
                /\ order' = Step(e, TRUE, "dispatch")
                /\ UNCHANGED responses
           ELSE /\ ex' = [ex EXCEPT ![e].pc = "regular", ![e].resp = r]
                /\ order' = Step(e, TRUE, "dispatch")
                /\ UNCHANGED <<responses, client>>
  /\ UNCHANGED <<mgrVars, op, requests, files, binaryFiles, histVars, spawned, broadcast>>

\* a failed db.StoreResponse is answered with a gateway error
WriteAfterStore_FailClosed(stored, reply) ==
  IF stored THEN reply ELSE HttpError(500, "Failed to store response")

\* handleRegularResponse, lines 618-653: the error of db.StoreResponse is
\* logged and the reply is written to the client all the same
WriteAfterStore(stored, reply) == reply

\* the reference is stored whether or not the response record was
LinkArtifact_Always(stored, binaryFilePath, linked) == binaryFilePath # <<>> /\ linked

\* handleRegularResponse, lines 618-627: StoreBinaryFile is called only when
\* StoreResponse succeeded and a file was saved; the call itself may fail
LinkArtifact(stored, binaryFilePath, linked) == stored /\ binaryFilePath # <<>> /\ linked

\* handleRegularResponse, lines 566-654; the error of io.ReadAll is discarded
Handle_Regular(e) ==
  /\ ex[e].pc = "regular"
  /\ LET r == ex[e].resp
         respBody == r.body
         decompressedBody == StoredBody(respBody, r.encoding)
         row == ResponseRow(e, r.status, decompressedBody, NoCanned)
     IN \E saved \in StoreOutcomes, stored \in StoreOutcomes, linked \in StoreOutcomes :
          LET binaryFilePath == IF IsBinary(r.ctype) /\ saved THEN <<e>> ELSE <<>>
              artifact == ArtifactBytes(respBody, decompressedBody)
          IN /\ files' = IF binaryFilePath # <<>>
                           THEN files \cup {[path |-> binaryFilePath, data |-> artifact,
                                             size |-> Len(artifact)]}
                           ELSE files
             /\ responses' = IF stored THEN responses \cup {row} ELSE responses
             /\ order' = Step(e, stored, "response_persist")
             /\ spawned' = SpawnResponseEvent(e, stored)
             /\ binaryFiles' = IF LinkArtifact(stored, binaryFilePath, linked)
                                 THEN binaryFiles \cup
                                        {[request_id |-> ex[e].requestID,
                                          response_id |-> row.id,
                                          file_path |-> binaryFilePath,
                                          size |-> Len(artifact)]}
                                 ELSE binaryFiles
             /\ client' = [client EXCEPT ![e] =
                             WriteAfterStore(stored,
                               Relayed(r.status, ClientBody(respBody, decompressedBody)))]
             /\ ex' = [ex EXCEPT ![e].pc = "done",
                                 ![e].post = IF stored THEN "pending" ELSE "none"]
  /\ UNCHANGED <<mgrVars, op, requests, upstream, histVars, broadcast>>

\* the chunk is put in front of what was captured
TeeCapture_Prepend(buffer, chunk) == chunk \o buffer

\* io.TeeReader.Read: what the capture buffer holds after a read returned chunk
TeeCapture(buffer, chunk) == buffer \o chunk

\* http.ResponseWriter.Write: the bytes go into the server's write buffer, which
\* is sent when Flush is called, when the handler returns, or when it is full
\* (the chunks here are smaller than that buffer); a Write sends nothing
FlushedAfterWrite(sent, body) == sent

\* http.Flusher.Flush: everything written so far is sent
FlushedAfterFlush(sent, body) == Len(body)

\* handleStreamingResponse, lines 698 and 708: io.Copy reads the next chunk
\* from the tee reader, which has copied it into bufferedResponse when Read returns
Handle_StreamChunk(e) ==
  /\ ex[e].pc = "streaming"
  /\ ex[e].remaining # <<>>
  /\ \E k \in 1..Len(ex[e].remaining) :
       LET chunk == SubSeq(ex[e].remaining, 1, k)
       IN ex' = [ex EXCEPT ![e].remaining = SubSeq(@, k + 1, Len(@)),
                           ![e].chunk = chunk,
                           ![e].bufferedResponse = TeeCapture(@, chunk),
                           ![e].pc = "stream_write"]
  /\ UNCHANGED <<mgrVars, op, dbVars, client, upstream, histVars, busVars>>

\* handleStreamingResponse, line 708: io.Copy writes the chunk to the client
Handle_StreamWrite(e) ==
  /\ ex[e].pc = "stream_write"
  /\ LET body == client[e].body \o ex[e].chunk
     IN client' = [client EXCEPT ![e].body = body,
                                 ![e].flushed = FlushedAfterWrite(@, body)]
  /\ ex' = [ex EXCEPT ![e].pc = "streaming", ![e].chunk = <<>>]
  /\ UNCHANGED <<mgrVars, op, dbVars, upstream, histVars, busVars>>

\* handleStreamingResponse, lines 709-756: io.Copy has returned (its error is
\* discarded), the one Flush, then store the capture
Handle_StreamEnd(e) ==
  /\ ex[e].pc = "streaming"
  /\ ex[e].remaining = <<>>
  /\ LET r == ex[e].resp
         storedBody == StoredBody(ex[e].bufferedResponse, r.encoding)
     IN \E stored \in StoreOutcomes :
          /\ responses' = IF stored
                            THEN responses \cup
                                   {ResponseRow(e, r.status, storedBody, NoCanned)}
                            ELSE responses
          /\ order' = Step(e, stored, "response_persist")
          /\ spawned' = SpawnResponseEvent(e, stored)
  /\ client' = [client EXCEPT ![e].flushed = FlushedAfterFlush(@, client[e].body)]
  /\ ex' = [ex EXCEPT ![e].pc = "done"]
  /\ UNCHANGED <<mgrVars, op, requests, files, binaryFiles, upstream, histVars, broadcast>>

\* ------------------------------------------------------------------------
\* Events: api.Handler.Broadcast... and api.SSEBroadcaster
\* ------------------------------------------------------------------------
\* `go ph.apiHandler.BroadcastRequestCreated(reqData)`
BroadcastRequestCreated(e) ==
  /\ Event("request_created", e) \in spawned
  /\ CanPublish
  /\ broadcast' = Append(broadcast, Event("request_created", e))
  /\ spawned' = spawned \ {Event("request_created", e)}
  /\ UNCHANGED <<mgrVars, ex, op, dbVars, client, upstream, histVars, order>>

\* the response event is published as soon as the upstream has replied
BroadcastResponseCreated_Early(e) ==
  /\ ex[e].pc \in {"regular", "streaming", "stream_write"}
  /\ "event" \notin {order[e][i] : i \in DOMAIN order[e]}
  /\ CanPublish
  /\ broadcast' = Append(broadcast, Event("response_created", e))
  /\ order' = Step(e, TRUE, "event")
  /\ UNCHANGED <<mgrVars, ex, op, dbVars, client, upstream, histVars, spawned>>

\* how the provider's ProcessResponse can end. OpenAI's does nothing.
\* Replicate's fails when the body is not JSON, does nothing when there is no
\* output URL, and otherwise downloads the image and stores it: the download
\* may fail, and the file may be saved while its reference is not stored.
\* The streaming path starts no post-processing.
PostOutcomes(e) ==
  IF ex[e].post # "pending" THEN {ex[e].post}
  ELSE IF ex[e].provider = "replicate"
    THEN {"parse_error", "no_output", "download_failed", "stored"}
           \cup (IF ScenarioFaults THEN {"unlinked"} ELSE {})
    ELSE {"noop"}

\* the response row the goroutine was started for
LastRowID(e) == <<e, Cardinality(RowsOf(e))>>

\* downloadAndStoreImage: the file SaveFile writes for the downloaded image
DownloadedFile(e) == [path |-> <<e, "output">>, data |-> <<Plain>>, size |-> 1]

\* a failed post-processing flags the response record
LogPostProcessError_Flag(rows, e, outcome) ==
  IF outcome = "parse_error"
    THEN {IF r.id[1] = e THEN [r EXCEPT !.IsError = TRUE] ELSE r : r \in rows}
    ELSE rows

\* handleRegularResponse, lines 632-634: the error of ProcessResponse is
\* printed; the response record is left as stored
LogPostProcessError(rows, e, outcome) == rows

\* the goroutine started after StoreResponse: the provider's ProcessResponse
\* (buffered path only), GetResponse, then BroadcastResponseCreated(storedResp)
BroadcastResponseCreated(e) ==
  /\ Event("response_created", e) \in spawned
  /\ CanPublish
  /\ \E outcome \in PostOutcomes(e) :
       /\ ex' = [ex EXCEPT ![e].post = outcome]
       /\ files' = IF outcome \in {"stored", "unlinked"}
                     THEN files \cup {DownloadedFile(e)}
                     ELSE files
       /\ binaryFiles' = IF outcome = "stored"
                           THEN binaryFiles \cup
                                  {[request_id |-> ex[e].requestID,
                                    response_id |-> LastRowID(e),
                                    file_path |-> DownloadedFile(e).path,
                                    size |-> DownloadedFile(e).size]}
                           ELSE binaryFiles
       /\ responses' = LogPostProcessError(responses, e, outcome)
  /\ broadcast' = Append(broadcast, Event("response_created", e))
  /\ spawned' = spawned \ {Event("response_created", e)}
  /\ order' = Step(e, TRUE, "event")
  /\ UNCHANGED <<mgrVars, op, requests, client, upstream, histVars>>

\* the run loop leaves events in the channel until a client is registered
run_Broadcast_NeedsClient ==
  /\ run.pc = "select"
  /\ broadcast # <<>>
  /\ clients # {}
  /\ broadcast' = Tail(broadcast)
  /\ run' = [pc |-> "fanout", event |-> Head(broadcast), todo |-> clients,
             registered |-> clients]
  /\ UNCHANGED <<gatewayVars, obsVars, fanlog>>

\* SSEBroadcaster.run, `case event := <-b.broadcast`: the loop over b.clients
\* starts; with no client registered its body runs zero times
run_Broadcast ==
  /\ run.pc = "select"
  /\ broadcast # <<>>
  /\ broadcast' = Tail(broadcast)
  /\ run' = IF clients = {}
              THEN run
              ELSE [pc |-> "fanout", event |-> Head(broadcast), todo |-> clients,
                    registered |-> clients]
  /\ UNCHANGED <<gatewayVars, obsVars, fanlog>>

\* the send blocks while the channel is full
SelectSend_NoDefault(channel) ==
  IF Len(channel) < MaxMailbox THEN {"sent"} ELSE {}

\* `select { case client.send <- event: default: }`: the cases the select can
\* take; the default case is taken only when the send cannot proceed
SelectSend(channel) ==
  IF Len(channel) < MaxMailbox THEN {"sent"} ELSE {"default"}

\* SSEBroadcaster.run, the body of `for _, client := range b.clients`, for the
\* client the map iteration visits next
run_Send(c) ==
  /\ run.pc = "fanout"
  /\ c \in run.todo
  /\ \E taken \in SelectSend(mailbox[c]) :
       /\ mailbox' = IF taken = "sent"
                       THEN [mailbox EXCEPT ![c] = Append(@, run.event)]
                       ELSE mailbox
       /\ fanlog' = fanlog \cup {[event |-> run.event, client |-> c,
                                  room |-> Len(mailbox[c]) < MaxMailbox,
                                  open |-> c \notin closed,
                                  sent |-> taken = "sent"]}
  /\ run' = [run EXCEPT !.todo = @ \ {c},
                        !.pc = IF run.todo = {c} THEN "select" ELSE "fanout"]
  /\ UNCHANGED <<gatewayVars, broadcast, clients, closed, obs, quit, published>>

\* SSEBroadcaster.run, `case client := <-b.subscribe`, the rendezvous with the
\* send in Subscribe; GetEvents then writes "connected" and waits for events
run_Subscribe(c) ==
  /\ run.pc = "select"
  /\ obs[c].pc = "subscribing"
  /\ clients' = clients \cup {c}
  /\ obs' = [obs EXCEPT ![c].pc = "listening", ![c].since = published]
  /\ UNCHANGED <<gatewayVars, broadcast, mailbox, closed, run, quit, published, fanlog>>

\* the client stays in the registry
Unregister_Keep(registry, c) == registry

\* delete(b.clients, client.id)
Unregister(registry, c) == registry \ {c}

\* the channel is closed whether or not the client is registered
CloseSend_Always(registry, closedChannels, c) == closedChannels \cup {c}

\* `if _, exists := b.clients[client.id]; exists { ...; close(client.send) }`
CloseSend(registry, closedChannels, c) ==
  IF c \in registry THEN closedChannels \cup {c} ELSE closedChannels

\* SSEBroadcaster.run, `case client := <-b.unsubscribe`, the rendezvous with
\* the send in Unsubscribe: a registered client is deleted and its channel closed
run_Unsubscribe(c) ==
  /\ run.pc = "select"
  /\ obs[c].pc = "unsubscribing"
  /\ clients' = Unregister(clients, c)
  /\ closed' = CloseSend(clients, closed, c)
  /\ obs' = [obs EXCEPT ![c].pc = "gone",
                        ![c].closes = IF c \in CloseSend(clients, {}, c) THEN @ + 1 ELSE @]
  /\ UNCHANGED <<gatewayVars, broadcast, mailbox, run, quit, published, fanlog>>

\* SSEBroadcaster.run, `case <-b.quit: return`
run_Quit ==
  /\ run.pc = "select"
  /\ quit
  /\ run' = [run EXCEPT !.pc = "stopped"]
  /\ UNCHANGED <<gatewayVars, broadcast, obsVars, fanlog>>

\* SSEBroadcaster.Close
Close ==
  /\ ~quit
  /\ quit' = TRUE
  /\ UNCHANGED <<gatewayVars, broadcast, clients, mailbox, closed, obs, published, run,
                 fanlog>>

\* BroadcastEvent, `case b.broadcast <- event`
BroadcastEvent_Send ==
  /\ published < MaxEvents
  /\ CanPublish
  /\ broadcast' = Append(broadcast, SSEEvent(published + 1))
  /\ published' = published + 1
  /\ UNCHANGED <<gatewayVars, clients, mailbox, closed, obs, quit, run, fanlog>>

\* BroadcastEvent, `case <-b.quit`: the call returns and the event is not queued
BroadcastEvent_Quit ==
  /\ published < MaxEvents
  /\ quit
  /\ published' = published + 1
  /\ UNCHANGED <<gatewayVars, broadcast, clients, mailbox, closed, obs, quit, run, fanlog>>

\* GetEvents: Subscribe makes the client and its send channel, then waits to
\* hand the client to the run loop
GetEvents_Subscribe(c) ==
  /\ obs[c].pc = "idle"
  /\ obs' = [obs EXCEPT ![c].pc = "subscribing"]
  /\ mailbox' = [mailbox EXCEPT ![c] = <<>>]
  /\ UNCHANGED <<gatewayVars, broadcast, clients, closed, quit, published, run, fanlog>>

\* the event is read and left in the channel
Receive_Keep(channel) == channel

\* `<-client.send`: what the channel holds after its first event was received
Receive(channel) == Tail(channel)

\* GetEvents, `case event, ok := <-client.send`: the event is written to the
\* stream; the handler returns when the channel is closed and drained
GetEvents_Receive(c) ==
  /\ obs[c].pc = "listening"
  /\ IF mailbox[c] # <<>>
       THEN /\ obs' = [obs EXCEPT ![c].seen = Append(@, Head(mailbox[c]))]
            /\ mailbox' = [mailbox EXCEPT ![c] = Receive(@)]
       ELSE /\ c \in closed
            /\ obs' = [obs EXCEPT ![c].pc = "unsubscribing"]
            /\ UNCHANGED mailbox
  /\ UNCHANGED <<gatewayVars, broadcast, clients, closed, quit, published, run, fanlog>>

\* GetEvents, `case <-r.Context().Done()`: the handler returns and the deferred
\* Unsubscribe waits to hand the client to the run loop
GetEvents_Done(c) ==
  /\ obs[c].pc = "listening"
  /\ obs' = [obs EXCEPT ![c].pc = "unsubscribing"]
  /\ UNCHANGED <<gatewayVars, broadcast, clients, mailbox, closed, quit, published, run,
                 fanlog>>

\* Unsubscribe is called once more for a client that was already unsubscribed
\* (GetEvents itself calls it once per client)
Unsubscribe_Again(c) ==
  /\ obs[c].pc = "gone"
  /\ obs' = [obs EXCEPT ![c].pc = "unsubscribing"]
  /\ UNCHANGED <<gatewayVars, broadcast, clients, mailbox, closed, quit, published, run,
                 fanlog>>

\* ------------------------------------------------------------------------
\* Specifications
\* ------------------------------------------------------------------------
Next ==
  \/ \E e \in Exchanges : Handle_Admit(e)
  \/ \E e \in Exchanges : Handle_CheckApproval(e)
  \/ \E e \in Exchanges : WaitForApproval_Register(e)
  \/ \E e \in Exchanges : WaitForApproval_Receive(e)
  \/ \E e \in Exchanges : WaitForApproval_Timeout(e)
  \/ \E e \in Exchanges : WaitForApproval_Return(e)
  \/ \E e \in Exchanges : Handle_GateResolve(e)
  \/ \E e \in Exchanges : Handle_Prepare(e)
  \/ \E e \in Exchanges : Handle_Dispatch(e)
  \/ \E e \in Exchanges : Handle_Regular(e)
  \/ \E e \in Exchanges : Handle_StreamChunk(e)
  \/ \E e \in Exchanges : Handle_StreamWrite(e)
  \/ \E e \in Exchanges : Handle_StreamEnd(e)
  \/ \E o \in Operators : ToggleOverride_Read(o)
  \/ \E o \in Operators : ToggleOverride_Write(o)
  \/ \E o \in Operators, id \in ScenarioIDs : Approve_Lookup(o, id)
  \/ \E o \in Operators, id \in ScenarioIDs, a \in ScenarioActions :
       Override_Lookup(o, id, a)
  \/ \E o \in Operators : Deliver_Send(o)
  \/ \E o \in Operators : Deliver_Record(o)
  \/ \E e \in Exchanges : BroadcastRequestCreated(e)
  \/ \E e \in Exchanges : BroadcastResponseCreated(e)
  \/ run_Broadcast

Spec == Init /\ [][Next]_vars

SpecRelay == InitRelay /\ [][Next]_vars

SpecFaults == InitFaults /\ [][Next]_vars

SpecIntake == InitIntake /\ [][Next]_vars

SpecBestEffort == InitBestEffort /\ [][Next]_vars

\* the broadcaster with its publishers and observers
NextBroadcaster ==
  \/ BroadcastEvent_Send
  \/ BroadcastEvent_Quit
  \/ run_Broadcast
  \/ \E c \in Observers : run_Send(c)
  \/ \E c \in Observers : run_Subscribe(c)
  \/ \E c \in Observers : run_Unsubscribe(c)
  \/ run_Quit
  \/ Close
  \/ \E c \in Observers : GetEvents_Subscribe(c)
  \/ \E c \in Observers : GetEvents_Receive(c)
  \/ \E c \in Observers : GetEvents_Done(c)
  \/ \E c \in Observers : Unsubscribe_Again(c)

SpecBroadcaster == InitBroadcaster /\ [][NextBroadcaster]_vars

\* the goroutines of the broadcaster and of the GetEvents handlers are
\* scheduled: a case of a select that stays ready is taken. Publishers, Close,
\* connecting and disconnecting clients are the environment's choice.
FairBroadcaster ==
  /\ SpecBroadcaster
  /\ WF_vars(run_Broadcast)
  /\ WF_vars(run_Quit)
  /\ \A c \in Observers :
       /\ WF_vars(run_Send(c))
       /\ WF_vars(run_Subscribe(c))
       /\ WF_vars(run_Unsubscribe(c))
       /\ WF_vars(GetEvents_Receive(c))

\* ------------------------------------------------------------------------
\* Shutdown: main's sequence after a termination signal, and the in-flight
\* count of the proxy handler
\* ------------------------------------------------------------------------
\* main after `<-sigChan`: the calls it makes, in the order it makes them
ShutdownSteps_CloseFirst == <<"close_server", "close_broadcaster", "cancel", "wait">>

ShutdownSteps == <<"close_broadcaster", "cancel", "wait", "close_server">>

\* the call main is at (none while it waits for the signal and once it is done)
CurrentStep == IF main.pc \in DOMAIN ShutdownSteps THEN ShutdownSteps[main.pc] ELSE None

\* the context the handler checks is a background context, never cancelled
HandlerContext_Background == "live"

\* proxyHandler.SetShutdownContext(shutdownCtx): the context the handler
\* checks is the one main cancels
HandlerContext == shutdownCtx

\* the wait returns only when its deadline has passed
WaitOutcomes_GraceOnly(n, ctx) == IF ctx = "expired" THEN {"expired"} ELSE {}

\* WaitForInflightRequests(ctx): the ways the call can return now, given the
\* in-flight count and the state of its deadline
WaitOutcomes(n, ctx) ==
  (IF n = 0 THEN {"drained"} ELSE {}) \cup (IF ctx = "expired" THEN {"expired"} ELSE {})

\* Handle is entered for a request the server accepted: the count goes up
Handle_Enter(e) ==
  /\ server = "listening"
  /\ e \in ScenarioExchanges
  /\ frame[e] = "none"
  /\ frame' = [frame EXCEPT ![e] = "entered"]
  /\ inflight' = inflight + 1
  /\ UNCHANGED <<mgrVars, ex, op, dbVars, client, upstream, accepted, returned, toggles,
                 deliveries, scenario, providers, sseVars, busVars, main, shutdownCtx,
                 timeoutCtx, server>>

\* the deferred decrement runs on some returns only: a return that wrote an
\* error to the client leaves the count as it is
Handle_Exit_SuccessOnly(e) ==
  /\ frame[e] = "entered"
  /\ ex[e].pc = "done"
  /\ frame' = [frame EXCEPT ![e] = "returned"]
  /\ inflight' = IF client[e].status < 400 THEN inflight - 1 ELSE inflight
  /\ UNCHANGED <<mgrVars, ex, op, dbVars, client, upstream, accepted, returned, toggles,
                 deliveries, scenario, providers, sseVars, busVars, main, shutdownCtx,
                 timeoutCtx, server>>

\* Handle returns, whatever the path it took: the count goes down
Handle_Exit(e) ==
  /\ frame[e] = "entered"
  /\ ex[e].pc = "done"
  /\ frame' = [frame EXCEPT ![e] = "returned"]
  /\ inflight' = inflight - 1
  /\ UNCHANGED <<mgrVars, ex, op, dbVars, client, upstream, accepted, returned, toggles,
                 deliveries, scenario, providers, sseVars, busVars, main, shutdownCtx,
                 timeoutCtx, server>>

\* the body of Handle runs once the call has been counted
Handle_Serve(e) ==
  /\ frame[e] = "entered"
  /\ Handle_Admit(e)

\* the check before the upstream call: the call is made while the handler's
\* context is live
Handle_DispatchLive(e) ==
  /\ HandlerContext = "live"
  /\ Handle_Dispatch(e)

\* the check before the upstream call: once the context is cancelled the call
\* is refused and the client is told so
Handle_Refuse(e) ==
  /\ HandlerContext = "cancelled"
  /\ ex[e].pc = "dispatch"
  /\ ex' = [ex EXCEPT ![e].pc = "done"]
  /\ client' = [client EXCEPT ![e] = HttpError(503, "Server is shutting down")]
  /\ UNCHANGED <<mgrVars, op, dbVars, upstream, histVars, busVars>>

\* SIGINT or SIGTERM arrives: `<-sigChan` returns
main_Signal ==
  /\ main.pc = 0
  /\ main' = [main EXCEPT !.pc = 1]
  /\ UNCHANGED <<mgrVars, ex, op, dbVars, client, upstream, accepted, returned, toggles,
                 deliveries, scenario, providers, sseVars, busVars, inflight, frame,
                 shutdownCtx, timeoutCtx, server>>

\* broadcaster.Close()
main_CloseBroadcaster ==
  /\ CurrentStep = "close_broadcaster"
  /\ quit' = TRUE
  /\ main' = [main EXCEPT !.pc = @ + 1]
  /\ UNCHANGED <<mgrVars, ex, op, dbVars, client, upstream, accepted, returned, toggles,
                 deliveries, scenario, providers, busVars, clients, mailbox, closed, obs,
                 published, run, fanlog, inflight, frame, shutdownCtx, timeoutCtx, server>>

\* shutdownCancel()
main_Cancel ==
  /\ CurrentStep = "cancel"
  /\ shutdownCtx' = "cancelled"
  /\ main' = [main EXCEPT !.pc = @ + 1]
  /\ UNCHANGED <<mgrVars, ex, op, dbVars, client, upstream, accepted, returned, toggles,
                 deliveries, scenario, providers, sseVars, busVars, inflight, frame,
                 timeoutCtx, server>>

\* context.WithTimeout(context.Background(), shutdownTimeout), then the call
\* of WaitForInflightRequests(timeoutCtx)
main_WaitBegin ==
  /\ CurrentStep = "wait"
  /\ main.wait = "none"
  /\ timeoutCtx' = "running"
  /\ main' = [main EXCEPT !.wait = "blocked", !.pending = inflight]
  /\ UNCHANGED <<mgrVars, ex, op, dbVars, client, upstream, accepted, returned, toggles,
                 deliveries, scenario, providers, sseVars, busVars, inflight, frame,
                 shutdownCtx, server>>

\* the ten seconds of shutdownTimeout pass
Timeout_Expire ==
  /\ timeoutCtx = "running"
  /\ main.wait = "blocked"
  /\ timeoutCtx' = "expired"
  /\ UNCHANGED <<mgrVars, ex, op, dbVars, client, upstream, accepted, returned, toggles,
                 deliveries, scenario, providers, sseVars, busVars, inflight, frame, main,
                 shutdownCtx, server>>

\* WaitForInflightRequests returns
main_Wait ==
  /\ CurrentStep = "wait"
  /\ main.wait = "blocked"
  /\ \E outcome \in WaitOutcomes(inflight, timeoutCtx) :
       main' = [main EXCEPT !.pc = @ + 1, !.wait = outcome]
  /\ UNCHANGED <<mgrVars, ex, op, dbVars, client, upstream, accepted, returned, toggles,
                 deliveries, scenario, providers, sseVars, busVars, inflight, frame,
                 shutdownCtx, timeoutCtx, server>>

\* server.Close(): the listener is closed, no further request is accepted
main_ServerClose ==
  /\ CurrentStep = "close_server"
  /\ server' = "closed"
  /\ main' = [main EXCEPT !.pc = @ + 1]
  /\ UNCHANGED <<mgrVars, ex, op, dbVars, client, upstream, accepted, returned, toggles,
                 deliveries, scenario, providers, sseVars, busVars, inflight, frame,
                 shutdownCtx, timeoutCtx>>

\* the gateway with its in-flight count and main's shutdown sequence
NextShutdown ==
  \/ \E e \in Exchanges : Handle_Enter(e)
  \/ \E e \in Exchanges : Handle_Serve(e)
  \/ \E e \in Exchanges : Handle_CheckApproval(e)
  \/ \E e \in Exchanges : WaitForApproval_Register(e)
  \/ \E e \in Exchanges : WaitForApproval_Receive(e)
  \/ \E e \in Exchanges : WaitForApproval_Timeout(e)
  \/ \E e \in Exchanges : WaitForApproval_Return(e)
  \/ \E e \in Exchanges : Handle_GateResolve(e)
  \/ \E e \in Exchanges : Handle_Prepare(e)
  \/ \E e \in Exchanges : Handle_DispatchLive(e)
  \/ \E e \in Exchanges : Handle_Refuse(e)
  \/ \E e \in Exchanges : Handle_Regular(e)
  \/ \E e \in Exchanges : Handle_StreamChunk(e)
  \/ \E e \in Exchanges : Handle_StreamWrite(e)
  \/ \E e \in Exchanges : Handle_StreamEnd(e)
  \/ \E e \in Exchanges : Handle_Exit(e)
  \/ \E o \in Operators : ToggleOverride_Read(o)
  \/ \E o \in Operators : ToggleOverride_Write(o)
  \/ \E o \in Operators, id \in ScenarioIDs : Approve_Lookup(o, id)
  \/ \E o \in Operators, id \in ScenarioIDs, a \in ScenarioActions :
       Override_Lookup(o, id, a)
  \/ \E o \in Operators : Deliver_Send(o)
  \/ \E o \in Operators : Deliver_Record(o)
  \/ main_Signal
  \/ main_CloseBroadcaster
  \/ main_Cancel
  \/ main_WaitBegin
  \/ Timeout_Expire
  \/ main_Wait
  \/ main_ServerClose

SpecShutdown == InitShutdown /\ [][NextShutdown]_vars

\* main's goroutine is scheduled and time passes: a wait that can return
\* does, and a running deadline expires
FairShutdown ==
  /\ SpecShutdown
  /\ WF_vars(main_Wait)
  /\ WF_vars(Timeout_Expire)


\* ------------------------------------------------------------------------
\* Properties
\* ------------------------------------------------------------------------
Done(e) == ex[e].pc = "done"

\* WaitForApproval has returned to the exchange
WaitReturned(e) ==
  /\ ex[e].gated = "on"
  /\ ex[e].pc \in {"gate_resolve", "prepare", "dispatch", "regular", "streaming",
                   "stream_write", "done"}

\* response rows that reference the request row of exchange e
RowsFor(e) == {r \in responses : r.RequestID = e}

\* C1: for one ticket at most one delivery call (Approve or Override) returns
\* true; every delivery after the first accepted one is rejected.
FirstDeliveryWins ==
  \A e \in Exchanges : ex[e].persisted => Len(accepted[e]) <= 1

\* C2: whenever a delivery returned true, the WaitForApproval call that owns
\* the ticket returns exactly that decision; a delivery is never accepted while
\* the waiter returns timed-out.
DeliveryFailsClosed ==
  \A e \in Exchanges :
    (ex[e].persisted /\ WaitReturned(e)) =>
      \A i \in 1..Len(accepted[e]) : accepted[e][i] = ex[e].outcome

\* C3: a gated exchange to which no decision was delivered before its deadline
\* ends its wait as timed-out, makes no upstream call, stores an error-flagged
\* response record and answers the client with a gateway error.
TimeoutEscalates ==
  \A e \in Exchanges :
    /\ (WaitReturned(e) /\ accepted[e] = <<>>) =>
         /\ ex[e].outcome = ApprovalTimeout
         /\ ex[e].pc \in {"gate_resolve", "done"}
         /\ upstream[e] = 0
    /\ (WaitReturned(e) /\ Done(e) /\ ex[e].outcome = ApprovalTimeout) =>
         /\ upstream[e] = 0
         /\ RowsOf(e) # {}
         /\ \A r \in RowsOf(e) : r.IsError /\ r.StatusCode = 502
         /\ client[e].status = 502

TimeoutEscalatesWitness ==
  \E e \in Exchanges :
    /\ WaitReturned(e) /\ Done(e)
    /\ accepted[e] = <<>>
    /\ ex[e].outcome = ApprovalTimeout
    /\ \E r \in RowsOf(e) : r.IsError

\* the error envelope each provider's API uses
ProviderEnvelope(p) == IF p = "openai" THEN "error.object" ELSE "detail"

OneTicketPerIdentifier ==
  /\ \A t1, t2 \in pendingRequests : t1.RequestID = t2.RequestID => t1 = t2
  /\ \A r \in returned : ~r.pending => ~r.ok

\* a delivery was rejected as not pending, and two exchanges wait under the
\* same identifier with one ticket in the table
OneTicketPerIdentifierWitness ==
  /\ \E r \in returned : ~r.pending /\ ~r.ok
  /\ \E e1, e2 \in Exchanges :
       /\ e1 # e2
       /\ ex[e1].requestID = ex[e2].requestID
       /\ ex[e1].pc = "wait_delete"
       /\ ex[e2].pc = "waiting"
       /\ Cardinality(pendingRequests) = 1

\* C6: the approval toggle is read once per exchange, at admission: what was
\* read never changes, an exchange admitted with the toggle off is never
\* suspended, and an exchange admitted with it on leaves the gate only by the
\* outcome of its wait (towards upstream only by a delivered approval).
ToggleReadOnceAtAdmission ==
  /\ [][\A e \in Exchanges : ex[e].gated # "unread" => ex'[e].gated = ex[e].gated]_vars
  /\ [](\A e \in Exchanges :
          /\ ex[e].gated = "off" =>
               /\ ex[e].pc \notin {"wait_register", "waiting", "wait_delete", "gate_resolve"}
               /\ ex[e].outcome = None
               /\ ~\E t \in pendingRequests : t.ch = e
          /\ (ex[e].gated = "on" /\ (upstream[e] > 0 \/ ex[e].pc = "prepare")) =>
               /\ ex[e].outcome = ApprovalApproved
               /\ \E i \in 1..Len(accepted[e]) : accepted[e][i] = ApprovalApproved)

\* the mode was turned off while a gated exchange waits, and a later exchange
\* admitted with the mode off is on its way to the upstream
ToggleReadOnceAtAdmissionWitness ==
  \E e1, e2 \in Exchanges :
    /\ ~enabled
    /\ ex[e1].gated = "on" /\ ex[e1].pc = "waiting"
    /\ ex[e2].gated = "off" /\ ex[e2].pc = "dispatch"

\* C7: a delivery never blocks: whenever a deliverer is at its send, the send
\* can complete at once, whatever the state of the ticket and its slot.
DeliveryNeverBlocks ==
  \A o \in Operators :
    op[o].pc \in {"approve_send", "override_send"} => ENABLED Deliver_Send(o)

\* a deliverer is at its send while the slot is already filled and the ticket
\* is gone
DeliveryNeverBlocksWitness ==
  \E o \in Operators :
    /\ op[o].pc \in {"approve_send", "override_send"}
    /\ Decision[op[o].pending] # None
    /\ ~HasTicket(op[o].id)

\* C8: after an exchange that persisted its request reaches its terminal state,
\* exactly one response record references it.
ExactlyOneResponseRecord ==
  \A e \in Exchanges :
    (Done(e) /\ ex[e].persisted) => Cardinality(RowsFor(e)) = 1

\* C9: a response record is error-flagged if and only if the upstream call
\* failed or the approval deadline elapsed; upstream replies of any status and
\* override replies are stored unflagged.
ErrorFlagIff ==
  \A r \in responses :
    LET e == r.id[1]
    IN r.IsError <=> (ex[e].resp.err \/ ex[e].resp.cut \/ ex[e].outcome = ApprovalTimeout)

\* C10: in both response paths the bytes written to the client are exactly the
\* bytes read from upstream, whatever the Content-Encoding; only the stored
\* copy is decoded.
ClientGetsUpstreamBytes ==
  \A e \in Exchanges :
    (Done(e) /\ upstream[e] > 0 /\ ~ex[e].resp.err) =>
      /\ client[e].kind = "upstream"
      /\ client[e].status = ex[e].resp.status
      /\ client[e].body = ex[e].resp.body

\* a compressed reply was relayed as is while its stored copy was decoded
ClientGetsUpstreamBytesWitness ==
  \E e \in Exchanges :
    /\ Done(e) /\ ~ex[e].streaming
    /\ NormalizeEncoding(ex[e].resp.encoding) = "gzip"
    /\ client[e].body = ex[e].resp.body
    /\ \E r \in RowsOf(e) : <<GzipMagic>> \o r.Body = client[e].body

\* the place of a step in the order the exchange engine promises
Rank(step) ==
  CASE step = "request_persist" -> 1
    [] step = "dispatch" -> 2
    [] step = "response_persist" -> 3
    [] step = "event" -> 4

StepsOf(e) == {order[e][i] : i \in DOMAIN order[e]}

\* C11: within one exchange the steps are totally ordered: request persisted,
\* then upstream dispatch, then response persisted, then the response event
\* published; no step is taken twice or out of turn, and a later step is never
\* taken without the earlier ones it depends on.
StepsTotallyOrdered ==
  \A e \in Exchanges :
    /\ \A i, j \in DOMAIN order[e] : i < j => Rank(order[e][i]) < Rank(order[e][j])
    /\ "event" \in StepsOf(e) => "response_persist" \in StepsOf(e)
    /\ ("response_persist" \in StepsOf(e) /\ upstream[e] > 0) => "dispatch" \in StepsOf(e)
    /\ ("dispatch" \in StepsOf(e) /\ ex[e].persisted) => order[e][1] = "request_persist"

\* an exchange went through all four steps
StepsTotallyOrderedWitness ==
  \E e \in Exchanges :
    /\ Done(e)
    /\ order[e] = <<"request_persist", "dispatch", "response_persist", "event">>

\* C12: in the streaming path a chunk is written to the client and flushed
\* before it is appended to the capture buffer and before the next chunk is
\* read: the capture never holds a byte the client has not been sent, and
\* between two chunks everything written has been flushed.
FlushBeforeCapture ==
  \A e \in Exchanges :
    /\ ex[e].pc \in {"streaming", "stream_write"} =>
         Len(ex[e].bufferedResponse) <= client[e].flushed
    /\ ex[e].pc = "streaming" => client[e].flushed = Len(client[e].body)

\* C13: the response record of a streamed exchange is written only after the
\* stream has ended, and its body is the concatenation, in arrival order, of
\* all chunks the upstream sent, decoded per Content-Encoding.
StreamStoredIsDecodedConcat ==
  \A e \in Exchanges :
    /\ ex[e].pc \in {"streaming", "stream_write"} => RowsOf(e) = {}
    /\ (Done(e) /\ ex[e].streaming /\ ~ex[e].resp.err) =>
         /\ ex[e].bufferedResponse = ex[e].resp.body
         /\ \A r \in RowsOf(e) :
              /\ r.Body = StoredBody(ex[e].resp.body, ex[e].resp.encoding)
              /\ (NormalizeEncoding(ex[e].resp.encoding) = "gzip"
                    /\ Len(ex[e].resp.body) >= 1 /\ ex[e].resp.body[1] = GzipMagic) =>
                   r.Body = Tail(ex[e].resp.body)
              /\ (ex[e].resp.encoding = "br"
                    /\ Len(ex[e].resp.body) >= 1 /\ ex[e].resp.body[1] = BrotliMark) =>
                   r.Body = Tail(ex[e].resp.body)
              /\ ex[e].resp.encoding = "" => r.Body = ex[e].resp.body

\* a gzip stream of two bytes was captured and stored decoded
StreamStoredIsDecodedConcatWitness ==
  \E e \in Exchanges :
    /\ Done(e) /\ ex[e].streaming
    /\ NormalizeEncoding(ex[e].resp.encoding) = "gzip"
    /\ ex[e].resp.body = <<GzipMagic, Plain>>
    /\ \E r \in RowsOf(e) : r.Body = <<Plain>>

\* the request signals streaming intent: stream=true in the query, or a
\* boolean true "stream" member in a JSON object body
SignalsStreaming(query, body) == query = "true" \/ body = "{\"stream\":true}"

\* C14: an exchange takes the streaming path if and only if the provider
\* declares the endpoint as streaming and the request signals streaming intent;
\* either condition alone gives the buffered path.
StreamingIffBoth ==
  \A e \in Exchanges :
    LET both == /\ IsStreamingEndpoint(ex[e].provider, ex[e].path)
                /\ SignalsStreaming(ex[e].query, ex[e].body)
    IN /\ ex[e].pc \in {"streaming", "stream_write"} => both
       /\ ex[e].pc = "regular" => ~both
       /\ ex[e].pc \in {"dispatch", "regular", "streaming", "stream_write"} =>
            (ex[e].streaming <=> both)

\* intent alone: a request that asks for a stream on an endpoint that does not
\* stream is on the buffered path
StreamingIffBothWitness ==
  \E e \in Exchanges :
    /\ ex[e].pc = "regular"
    /\ ex[e].path = PathImages
    /\ ex[e].body = "{\"stream\":true}"

\* C15: a request whose path no provider accepts is answered 400 at once, makes
\* no upstream call, and is still persisted as a request record.
NoMatchStillPersisted ==
  \A e \in Exchanges :
    (Done(e) /\ ex[e].provider = None) =>
      /\ client[e].status = 400
      /\ upstream[e] = 0
      /\ requests[e].approval_status # "absent"

\* the exchange went past the approval gate (or was never gated) and its
\* outbound request was handed to the provider's prepare step
ReachedPrepare(e) ==
  /\ ex[e].pc \in {"dispatch", "regular", "streaming", "stream_write", "done"}
  /\ ex[e].gated # "unread"
  /\ ex[e].gated = "on" => ex[e].outcome = ApprovalApproved

\* the prepare step must reject: no Authorization header, or for Replicate a
\* scheme that is neither Token nor Bearer
MustReject(p, auth) ==
  \/ auth = ""
  \/ p = "replicate" /\ auth \notin {"Token k", "Bearer k"}

\* C16: when the provider's prepare step rejects the outbound request, the
\* client gets a 4xx and the exchange never dispatches to the upstream.
PrepareErrorAborts ==
  \A e \in Exchanges :
    /\ (ReachedPrepare(e) /\ MustReject(ex[e].provider, ex[e].auth)) =>
         /\ Done(e)
         /\ client[e].status = 400
         /\ upstream[e] = 0
    /\ upstream[e] > 0 => ~MustReject(ex[e].provider, ex[e].auth)

\* Replicate was offered a Basic credential and the exchange ended with a 400
PrepareErrorAbortsWitness ==
  \E e \in Exchanges :
    /\ Done(e) /\ ReachedPrepare(e)
    /\ ex[e].provider = "replicate"
    /\ ex[e].auth = "Basic k"
    /\ client[e].status = 400
    /\ upstream[e] = 0

\* C17: when the upstream is unreachable or times out, in either response
\* path, an error-flagged response record with status 502 and the failure
\* reason is stored and the client is answered with an error.
UpstreamFailureEscalates ==
  \A e \in Exchanges :
    (Done(e) /\ upstream[e] > 0 /\ (ex[e].resp.err \/ ex[e].resp.cut)) =>
      /\ RowsOf(e) # {}
      /\ \A r \in RowsOf(e) : r.IsError /\ r.StatusCode = 502 /\ r.ErrorMessage # ""
      /\ client[e].status = 502

BestEffortNeverAffectsClient ==
  \A e \in Exchanges :
    /\ (ReachedPrepare(e) /\ ~MustReject(ex[e].provider, ex[e].auth)) =>
         (ex[e].pc = "dispatch" \/ upstream[e] = 1)
    /\ (Done(e) /\ upstream[e] > 0) =>
         IF ex[e].resp.err
           THEN client[e].status = 502 /\ client[e].kind # "upstream"
           ELSE /\ client[e].kind = "upstream"
                /\ client[e].status = ex[e].resp.status
                /\ client[e].body = ex[e].resp.body

\* the request record, the response record and the image file were all lost
\* and the client has the upstream's image
BestEffortNeverAffectsClientWitness ==
  \E e \in Exchanges :
    /\ Done(e) /\ upstream[e] = 1
    /\ ~ex[e].persisted
    /\ requests[e].approval_status = "absent"
    /\ RowsOf(e) = {}
    /\ IsBinary(ex[e].resp.ctype)
    /\ files = {}
    /\ client[e].status = 200
    /\ client[e].body = ex[e].resp.body
    /\ client[e].body # <<>>

\* C20: the fan-out of a published event is non-blocking per observer: an
\* observer whose mailbox is full has the event dropped, for that observer
\* only; every observer with free mailbox space is sent it; no send of the
\* fan-out can block, so the run loop is back at its select, where it serves
\* later subscribe, unsubscribe and publish operations.
FanoutNeverBlocks ==
  /\ \A l \in fanlog : l.sent <=> l.room
  /\ run.pc = "fanout" =>
       /\ run.todo # {}
       /\ \A c \in run.todo : ENABLED run_Send(c)
  /\ (run.pc # "fanout" /\ run.event # NoEvent) =>
       \A c \in run.registered :
         \E l \in fanlog : l.event = run.event /\ l.client = c

\* one event was dropped for an observer with a full mailbox and sent to the
\* other observer, and the run loop went on to fan out a later event
FanoutNeverBlocksWitness ==
  \E l1, l2, l3 \in fanlog :
    /\ l1.event = l2.event
    /\ l1.client # l2.client
    /\ ~l1.room /\ ~l1.sent
    /\ l2.room /\ l2.sent
    /\ l3.event # l1.event
    /\ l3.event = run.event
    /\ run.pc = "select"

\* C21: the run loop alone changes the observer registry, between fan-outs, so
\* a fan-out never sends to a mailbox that Unsubscribe has closed: no closed
\* mailbox is registered, none is among the clients a fan-out has still to
\* visit, and every send of a fan-out found the mailbox open.
FanoutSkipsClosed ==
  /\ clients \cap closed = {}
  /\ run.pc = "fanout" => (run.todo \subseteq clients /\ run.registered = clients)
  /\ \A l \in fanlog : l.open

\* an observer that had been sent an event unsubscribed, its mailbox was
\* closed, and a later event was fanned out to the other observer only
FanoutSkipsClosedWitness ==
  \E c \in closed :
    /\ run.pc = "select"
    /\ \E l \in fanlog : l.client = c /\ l.event # run.event
    /\ \E l \in fanlog : l.client # c /\ l.event = run.event
    /\ \A l \in fanlog : l.client = c => l.event # run.event

\* C22: publishing to a broadcaster with no subscribers does not block and
\* leaves the registry empty: while no observer is registered the run loop is
\* never inside a fan-out, a publish call can always complete (there is room
\* in the broadcast channel, or the run loop is about to make room, or quit is
\* closed), and queueing or consuming the event registers nobody and fills no
\* mailbox.
PublishWithoutSubscribers ==
  /\ [](clients = {} =>
         /\ run.pc # "fanout"
         /\ published < MaxEvents =>
              \/ ENABLED BroadcastEvent_Send
              \/ ENABLED BroadcastEvent_Quit
              \/ ENABLED run_Broadcast)
  /\ [][(clients = {} /\ broadcast' # broadcast) =>
          /\ clients' = {}
          /\ UNCHANGED <<run, mailbox, fanlog, closed>>]_vars

\* nobody ever subscribed, the broadcaster is open, and every event published
\* so far has been taken from the channel by the run loop
PublishWithoutSubscribersWitness ==
  /\ \A c \in Observers : obs[c].pc = "idle"
  /\ clients = {}
  /\ ~quit
  /\ published = MaxEvents
  /\ broadcast = <<>>
  /\ run.pc = "select"

\* C26: closing the broadcaster tells every subscribed observer to
\* disconnect: an observer whose handler is waiting for events when the
\* broadcaster is closed eventually stops waiting, without its request
\* context being cancelled by the client or the server socket.
CloseDisconnectsObservers ==
  \A c \in Observers :
    (quit /\ obs[c].pc = "listening") ~> (obs[c].pc # "listening")

\* C29: provider post-processing is asynchronous and best-effort: a buffered
\* exchange has written the upstream's reply to the client whether its
\* post-processing has not ended, did nothing, stored an image or failed, and
\* in each of these cases the stored response record is the one the handler
\* wrote.
PostProcessingDetached ==
  \A e \in Exchanges :
    (Done(e) /\ ~ex[e].streaming /\ upstream[e] > 0 /\ ~ex[e].resp.err) =>
      /\ ex[e].post \in {"pending", "noop", "parse_error", "no_output",
                         "download_failed", "stored"}
      /\ client[e].kind = "upstream"
      /\ client[e].status = ex[e].resp.status
      /\ client[e].body = ex[e].resp.body
      /\ \A r \in RowsOf(e) :
           /\ ~r.IsError
           /\ r.StatusCode = ex[e].resp.status
           /\ r.Body = StoredBody(ex[e].resp.body, ex[e].resp.encoding)

\* Replicate's post-processing failed on a reply that was relayed and stored
PostProcessingDetachedWitness ==
  \E e \in Exchanges :
    /\ Done(e)
    /\ ex[e].post = "parse_error"
    /\ client[e].status = 200
    /\ client[e].body # <<>>
    /\ \E r \in RowsOf(e) : ~r.IsError /\ r.StatusCode = 200

\* a content type that starts with image/, audio/ or video/
IsMedia(contentType) == contentType[1] \in {"image", "audio", "video"}

\* a buffered exchange whose upstream replied and whose handler has returned
BufferedReplied(e) ==
  Done(e) /\ ~ex[e].streaming /\ upstream[e] > 0 /\ ~ex[e].resp.err

\* the files and the binary-file references of exchange e
FilesOf(e) == {f \in files : f.path[1] = e}
ReferencesOf(e) == {b \in binaryFiles : b.file_path[1] = e}

\* C28 as stated: in the buffered path a media response is saved as a binary
\* artifact made of the original upstream bytes, its size the length of the
\* upstream body, and a response of any other content type produces no binary
\* artifact at all.
BinaryArtifactIffMedia ==
  \A e \in Exchanges :
    BufferedReplied(e) =>
      IF IsMedia(ex[e].resp.ctype)
        THEN \E f \in FilesOf(e) :
               /\ f.data = ex[e].resp.body
               /\ f.size = Len(ex[e].resp.body)
               /\ \E b \in ReferencesOf(e) : b.file_path = f.path /\ b.size = f.size
        ELSE FilesOf(e) = {} /\ ReferencesOf(e) = {}

\* C28, amended: the handler saves the original upstream bytes of a media
\* response as the exchange's artifact, with the upstream body's length as
\* size, and saves nothing from the body of a response of any other content
\* type; the only artifact such an exchange can get is the image that
\* Replicate's post-processing downloaded.
BinaryArtifactFromBody ==
  \A e \in Exchanges :
    BufferedReplied(e) =>
      LET saved == {f \in FilesOf(e) : f.path = <<e>>}
          linked == {b \in ReferencesOf(e) : b.file_path = <<e>>}
          other == FilesOf(e) \ saved
      IN /\ IF IsMedia(ex[e].resp.ctype)
              THEN /\ saved = {[path |-> <<e>>, data |-> ex[e].resp.body,
                                 size |-> Len(ex[e].resp.body)]}
                   /\ \E b \in linked : b.size = Len(ex[e].resp.body)
              ELSE saved = {} /\ linked = {}
         /\ other # {} =>
              /\ ex[e].provider = "replicate"
              /\ ex[e].post = "stored"
              /\ other = {DownloadedFile(e)}

\* a compressed image: the artifact has the length of the upstream body, which
\* is not the length of the decoded body in the response record
BinaryArtifactFromBodyWitness ==
  \E e \in Exchanges :
    /\ BufferedReplied(e)
    /\ IsMedia(ex[e].resp.ctype)
    /\ \E f \in FilesOf(e), r \in RowsOf(e) :
         /\ f.data = ex[e].resp.body
         /\ f.size = Len(ex[e].resp.body)
         /\ Len(r.Body) < f.size

\* ------------------------------------------------------------------------
\* C30: the decision an operator call recorded against an exchange
\* (approved_at set) is the one its wait returned: status approved only if
\* the wait returned approved, overridden with action a only if the wait
\* returned a, and nothing recorded for an exchange whose wait timed out.
\* ------------------------------------------------------------------------
RecordedDecisionIsActedOn ==
  \A e \in Exchanges :
    (WaitReturned(e) /\ requests[e].approved_at) =>
      /\ ex[e].outcome # ApprovalTimeout
      /\ requests[e].approval_status = "approved" => ex[e].outcome = ApprovalApproved
      /\ requests[e].approval_status = "overridden" =>
           ex[e].outcome = requests[e].override_action

\* ------------------------------------------------------------------------
\* C23: after a termination signal the broadcaster is closed, then the
\* cancellation is flipped, then main waits for the in-flight exchanges, and
\* only then the server is closed: nothing of this happens before the signal,
\* the context is never cancelled with the broadcaster open, the wait never
\* starts with the context live, and the server is never closed before the
\* wait has ended.
\* ------------------------------------------------------------------------
ShutdownOrder ==
  /\ main.pc = 0 => ~quit /\ shutdownCtx = "live" /\ main.wait = "none"
  /\ shutdownCtx = "cancelled" => quit
  /\ main.wait # "none" => shutdownCtx = "cancelled"
  /\ server = "closed" => main.wait \in {"drained", "expired"}

\* the server has been closed after a wait that began with an exchange in
\* flight and ended when the count reached zero
ShutdownOrderWitness ==
  /\ server = "closed"
  /\ quit
  /\ shutdownCtx = "cancelled"
  /\ main.wait = "drained"
  /\ main.pending > 0

\* C24: the shutdown wait ends when the in-flight count is zero or when the
\* grace period has elapsed, whichever comes first: it can return as soon as
\* the count is zero without the deadline, it can return as soon as the
\* deadline has expired whatever the count, it returns for no other reason,
\* and it always returns.
ShutdownWaitBounded ==
  /\ [](main.wait = "blocked" =>
          /\ inflight = 0 => ENABLED main_Wait
          /\ timeoutCtx = "expired" => ENABLED main_Wait
          /\ (inflight > 0 /\ timeoutCtx = "running") => ~ENABLED main_Wait)
  /\ [][(main.wait = "blocked" /\ main'.wait # "blocked") =>
          \/ main'.wait = "drained" /\ inflight = 0
          \/ main'.wait = "expired" /\ timeoutCtx = "expired"]_vars
  /\ (main.wait = "blocked") ~> (main.wait \in {"drained", "expired"})

\* the wait began with one exchange in flight, that exchange got its reply
\* from the upstream and returned, and the wait ended with the deadline still
\* running
ShutdownWaitBoundedWitness ==
  /\ main.wait = "drained"
  /\ main.pending = 1
  /\ timeoutCtx = "running"
  /\ \E e \in Exchanges : frame[e] = "returned" /\ upstream[e] = 1

InflightCountsExchanges ==
  /\ inflight = Cardinality({e \in Exchanges : frame[e] = "entered"})
  /\ inflight >= 0
  /\ \A e \in Exchanges :
       /\ ex[e].pc \notin {"idle", "done"} => frame[e] = "entered"
       /\ frame[e] = "none" => ex[e].pc = "idle"
       /\ frame[e] = "returned" => ex[e].pc = "done"
  /\ (\A e \in Exchanges : ex[e].pc \in {"idle", "done"} /\ frame[e] # "entered")
       => inflight = 0

\* one exchange has returned after its approval wait timed out, the other is
\* still reading the upstream's reply: the count is one
InflightCountsExchangesWitness ==
  /\ inflight = 1
  /\ \E e \in Exchanges :
       /\ frame[e] = "returned"
       /\ ex[e].outcome = ApprovalTimeout
  /\ \E e \in Exchanges :
       /\ frame[e] = "entered"
       /\ ex[e].pc = "regular"

RejectedDeliveryChangesNothing ==
  /\ [][deliveries' # deliveries =>
          UNCHANGED <<mgrVars, requests, broadcast, spawned, accepted>>]_vars
  /\ [][\A o \in Operators :
          (/\ op[o].pc \in {"approve_send", "override_send"}
           /\ ~CanSend(op[o].pending)
           /\ op'[o] # op[o]) =>
            /\ op'[o].pc = "idle"
            /\ UNCHANGED <<mgrVars, requests, broadcast, spawned, accepted>>]_vars
  /\ [](\A o \in Operators : op[o].pc = "record" => accepted[op[o].pending] # <<>>)
  /\ [](\A e \in Exchanges : requests[e].approved_at => accepted[e] # <<>>)

\* two deliveries found the wait pending: the first was accepted, the second
\* found the slot filled and returned false; both handlers have returned and
\* one decision is recorded
RejectedDeliveryChangesNothingWitness ==
  /\ returned = {[pending |-> TRUE, ok |-> TRUE], [pending |-> TRUE, ok |-> FALSE]}
  /\ \A o \in Operators : op[o].pc = "idle"
  /\ \E e \in Exchanges : Len(accepted[e]) = 1 /\ requests[e].approved_at

\* C33: Enable and Disable change only the toggle: a step that writes the
\* toggle leaves the ticket table, every decision slot and every exchange as
\* they are, so a waiting exchange is not released by turning the mode off;
\* a wait ends only by its timer or by the decision found in its slot.
ToggleChangesOnlyToggle ==
  /\ [][\A o \in Operators :
          (op[o].pc = "toggle_write" /\ op'[o] # op[o]) =>
            UNCHANGED <<pendingRequests, Decision, ex, requests, accepted>>]_vars
  /\ [][enabled' # enabled => UNCHANGED <<pendingRequests, Decision, ex>>]_vars
  /\ [][\A e \in Exchanges :
          (ex[e].pc = "waiting" /\ ex'[e].pc # "waiting") =>
            /\ ex'[e].pc = "wait_delete"
            /\ \/ ex'[e].outcome = ApprovalTimeout
               \/ Decision[e] # None /\ ex'[e].outcome = Decision[e]]_vars

\* the mode was turned on and off again; an exchange admitted in between
\* still waits, its ticket in the table and its slot empty
ToggleChangesOnlyToggleWitness ==
  /\ ~enabled
  /\ toggles = 2
  /\ \A o \in Operators : op[o].pc = "idle"
  /\ \E e \in Exchanges :
       /\ ex[e].pc = "waiting"
       /\ Decision[e] = None
       /\ \E t \in pendingRequests : t.ch = e

ToggleParity ==
  (\A o \in Operators : op[o].pc # "toggle_write") =>
    (enabled <=> toggles % 2 = 1)

\* C36: Subscribe and Unsubscribe always return: a handler that is handing
\* its client to the run loop, in Subscribe or in Unsubscribe, eventually gets
\* past the call, also after Close has stopped the run loop.
SubscribeUnsubscribeReturn ==
  \A c \in Observers :
    /\ (obs[c].pc = "subscribing") ~> (obs[c].pc # "subscribing")
    /\ (obs[c].pc = "unsubscribing") ~> (obs[c].pc # "unsubscribing")

\* C37: an observer's mailbox is closed at most once: the run loop closes a
\* mailbox only in the unsubscribe step of an observer that is registered and
\* whose mailbox is open, that step takes the observer out of the registry, a
\* repeated Unsubscribe closes nothing, and a closed mailbox is never that of
\* a registered observer.
MailboxClosedOnce ==
  /\ [](clients \cap closed = {})
  /\ [](\A c \in Observers : obs[c].closes = IF c \in closed THEN 1 ELSE 0)
  /\ [][\A c \in Observers :
          /\ (c \in closed' /\ c \notin closed) =>
               /\ obs[c].pc = "unsubscribing"
               /\ c \in clients
          /\ (obs[c].pc = "unsubscribing" /\ obs'[c].pc # "unsubscribing") =>
               /\ c \notin clients'
               /\ c \notin clients => closed' = closed
               /\ c \in closed => closed' = closed]_vars

\* an observer was unsubscribed, its mailbox closed, and Unsubscribe is being
\* called for it a second time
MailboxClosedOnceWitness ==
  \E c \in Observers :
    /\ obs[c].pc = "unsubscribing"
    /\ c \in closed
    /\ c \notin clients
    /\ run.pc = "select"

\* C38: for every exchange the request-created event is published to the
\* broadcaster before the response-created event: when the response event of
\* an exchange has been published, its request event is not still waiting to
\* be published.
RequestEventBeforeResponseEvent ==
  \A e \in Exchanges :
    (\E i \in DOMAIN order[e] : order[e][i] = "event") =>
      Event("request_created", e) \notin spawned

\* the numbers of the events observer c has received, in the order received
SeenNumbers(c) == [i \in DOMAIN obs[c].seen |-> EventNumber(obs[c].seen[i])]

====
